---- MODULE Spec2Model ----
(***************************************************************************)
(* Model of git-file-url (src/main.rs): the URL builders github and        *)
(* gitlab, the remote-URL normalizer get_url, the --platform parser        *)
(* parse_platform, and the run of main from argument parsing to exit.      *)
(*                                                                         *)
(* A Rust string is modelled as a sequence of one-character strings, so    *)
(* that prefixes, suffixes, substrings and replacements are computed.      *)
(***************************************************************************)
EXTENDS Integers, Sequences, FiniteSets, TLC

VARIABLES
    call,              \* function harness: the call under test
    ret,               \* function harness: its return value, None before the call
    pc,                \* main: position in main
    opt,               \* main: the command line (raw arguments)
    repo,              \* main: the repository and file system main runs against
    platform,          \* main: opt.platform after parse_platform
    branch_or_commit,  \* main: local of the same name
    file,              \* main: local of the same name
    url,               \* main: local of the same name
    stdout,            \* main: lines written to standard output
    err                \* main: the error the run ended with, None if none

vars == <<call, ret, pc, opt, repo, platform, branch_or_commit, file, url, stdout, err>>

fnVars == <<call, ret>>

mainVars == <<pc, opt, repo, platform, branch_or_commit, file, url, stdout, err>>

-----------------------------------------------------------------------------
(* Option<T> and Result<T> *)

None == [some |-> FALSE]

Some(v) == [some |-> TRUE, val |-> v]

Ok(v) == [ok |-> TRUE, val |-> v]

Err(m) == [ok |-> FALSE, err |-> m]

-----------------------------------------------------------------------------
(* Bounds of the checked inputs *)

\* get_url inputs are concatenations of at most MaxChunks chunks
MaxChunks == 4

\* line numbers 0..MaxLine are checked, with the digit-count boundaries above
MaxLine == 120

\* largest value of the u16 line option
U16Max == 65535

-----------------------------------------------------------------------------
(* String literals of the source *)

GitAt == <<"g","i","t","@">>

DotGit == <<".","g","i","t">>

Http == <<"h","t","t","p">>

Https == <<"h","t","t","p","s",":","/","/">>

Colon == <<":">>

Slash == <<"/">>

BlobSeg == <<"/","b","l","o","b","/">>

DashBlobSeg == <<"/","-","/","b","l","o","b","/">>

HashL == <<"#","L">>

RefsHeads == <<"r","e","f","s","/","h","e","a","d","s","/">>

GithubStr == <<"g","i","t","h","u","b">>

GitlabStr == <<"g","i","t","l","a","b">>

ErrInvalidRemoteForm == "Invalid remote form"

ErrCannotGetUrl == "cannot get repository url"

ErrInvalidPlatform == "Invalid platform"

-----------------------------------------------------------------------------
(* str methods the source calls *)

StartsWith(s, p) == Len(p) <= Len(s) /\ SubSeq(s, 1, Len(p)) = p

EndsWith(s, p) == Len(p) <= Len(s) /\ SubSeq(s, Len(s) - Len(p) + 1, Len(s)) = p

\* Option: the rest of s after the prefix p
StripPrefix(s, p) == IF StartsWith(s, p) THEN Some(SubSeq(s, Len(p) + 1, Len(s))) ELSE None

\* Option: s without the suffix p
StripSuffix(s, p) == IF EndsWith(s, p) THEN Some(SubSeq(s, 1, Len(s) - Len(p))) ELSE None

Contains(s, p) == \E i \in 0..(Len(s) - Len(p)) : SubSeq(s, i + 1, i + Len(p)) = p

\* str::replace: every non-overlapping match of from, left to right
RECURSIVE Replace(_, _, _)
Replace(s, from, to) ==
    IF Len(s) < Len(from) \/ Len(from) = 0 THEN s
    ELSE IF SubSeq(s, 1, Len(from)) = from
         THEN to \o Replace(SubSeq(s, Len(from) + 1, Len(s)), from, to)
         ELSE <<Head(s)>> \o Replace(Tail(s), from, to)

UpperChars == <<"A","B","C","D","E","F","G","H","I","J","K","L","M","N","O","P","Q","R","S","T","U","V","W","X","Y","Z">>

LowerChars == <<"a","b","c","d","e","f","g","h","i","j","k","l","m","n","o","p","q","r","s","t","u","v","w","x","y","z">>

\* str::to_lowercase, on the ASCII characters of the model
ToLowercase(s) ==
    [i \in 1..Len(s) |->
        IF \E k \in 1..Len(UpperChars) : UpperChars[k] = s[i]
        THEN LowerChars[CHOOSE k \in 1..Len(UpperChars) : UpperChars[k] = s[i]]
        ELSE s[i]]

Digits == <<"0","1","2","3","4","5","6","7","8","9">>

\* Display of an unsigned integer ("{}"): decimal, no sign, no leading zero
RECURSIVE Dec(_)
Dec(n) == IF n < 10 THEN <<Digits[n + 1]>> ELSE Dec(n \div 10) \o <<Digits[(n % 10) + 1]>>

-----------------------------------------------------------------------------
(* fn github: "{url}/blob/{branch}/{path}", then "#L{line}" if a line is    *)
(* given.  fmt::write into a String cannot fail, so the result is Ok.       *)

github(repo_url, boc, path, line) ==
    LET u == repo_url \o BlobSeg \o boc \o Slash \o path
    IN  Ok(IF line.some THEN u \o HashL \o Dec(line.val) ELSE u)

(* fn gitlab: "{url}/-/blob/{branch}/{path}", then "#L{line}" *)

gitlab_as_github(repo_url, boc, path, line) ==
    LET u == repo_url \o BlobSeg \o boc \o Slash \o path
    IN  Ok(IF line.some THEN u \o HashL \o Dec(line.val) ELSE u)

gitlab(repo_url, boc, path, line) ==
    LET u == repo_url \o DashBlobSeg \o boc \o Slash \o path
    IN  Ok(IF line.some THEN u \o HashL \o Dec(line.val) ELSE u)

-----------------------------------------------------------------------------
(* fn get_url(url: Option<&str>) -> Result<String> *)

\* the ssh branch with replacen(":", "/", 1) in place of replace
get_url_first_colon(u) ==
    IF u.some
    THEN IF StartsWith(u.val, GitAt)
         THEN LET stripped == IF StripPrefix(u.val, GitAt).some
                              THEN StripSuffix(StripPrefix(u.val, GitAt).val, DotGit)
                              ELSE None
                  firstColon == IF stripped.some /\ \E i \in 1..Len(stripped.val) : stripped.val[i] = ":"
                                THEN CHOOSE i \in 1..Len(stripped.val) :
                                        /\ stripped.val[i] = ":"
                                        /\ \A j \in 1..(i - 1) : stripped.val[j] # ":"
                                ELSE 0
              IN  IF stripped.some
                  THEN Ok(Https \o [i \in 1..Len(stripped.val) |->
                                      IF i = firstColon THEN "/" ELSE stripped.val[i]])
                  ELSE Err(ErrInvalidRemoteForm)
         ELSE IF StripSuffix(u.val, DotGit).some
              THEN IF Contains(StripSuffix(u.val, DotGit).val, Http)
                   THEN Ok(StripSuffix(u.val, DotGit).val)
                   ELSE Err(ErrInvalidRemoteForm)
              ELSE Err(ErrCannotGetUrl)
    ELSE Err(ErrCannotGetUrl)

\* without the contains("http") check of line 69
get_url_no_http_check(u) ==
    IF u.some
    THEN IF StartsWith(u.val, GitAt)
         THEN LET stripped == IF StripPrefix(u.val, GitAt).some
                              THEN StripSuffix(StripPrefix(u.val, GitAt).val, DotGit)
                              ELSE None
              IN  IF stripped.some
                  THEN Ok(Https \o Replace(stripped.val, Colon, Slash))
                  ELSE Err(ErrInvalidRemoteForm)
         ELSE IF StripSuffix(u.val, DotGit).some
              THEN Ok(StripSuffix(u.val, DotGit).val)
              ELSE Err(ErrCannotGetUrl)
    ELSE Err(ErrCannotGetUrl)

\* with the absent url reported as an invalid remote form
get_url_none_invalid(u) ==
    IF u.some
    THEN IF StartsWith(u.val, GitAt)
         THEN LET stripped == IF StripPrefix(u.val, GitAt).some
                              THEN StripSuffix(StripPrefix(u.val, GitAt).val, DotGit)
                              ELSE None
              IN  IF stripped.some
                  THEN Ok(Https \o Replace(stripped.val, Colon, Slash))
                  ELSE Err(ErrInvalidRemoteForm)
         ELSE IF StripSuffix(u.val, DotGit).some
              THEN IF Contains(StripSuffix(u.val, DotGit).val, Http)
                   THEN Ok(StripSuffix(u.val, DotGit).val)
                   ELSE Err(ErrInvalidRemoteForm)
              ELSE Err(ErrCannotGetUrl)
    ELSE Err(ErrInvalidRemoteForm)

get_url(u) ==
    IF u.some
    THEN LET parsed ==
                 IF StartsWith(u.val, GitAt)
                 THEN \* ssh
                      LET stripped == IF StripPrefix(u.val, GitAt).some
                                      THEN StripSuffix(StripPrefix(u.val, GitAt).val, DotGit)
                                      ELSE None
                      IN  IF stripped.some
                          THEN Ok(Https \o Replace(stripped.val, Colon, Slash))
                          ELSE Err(ErrInvalidRemoteForm)
                 ELSE IF StripSuffix(u.val, DotGit).some
                      THEN Ok(StripSuffix(u.val, DotGit).val)
                      ELSE Err(ErrCannotGetUrl)
         IN  IF ~parsed.ok THEN parsed
             ELSE IF ~Contains(parsed.val, Http) THEN Err(ErrInvalidRemoteForm)
             ELSE Ok(parsed.val)
    ELSE Err(ErrCannotGetUrl)

-----------------------------------------------------------------------------
(* enum Platform and fn parse_platform *)

Platform == {"Github", "Gitlab"}

\* a match on p itself, without to_lowercase
parse_platform_case_sensitive(p) ==
    IF p = GithubStr THEN Ok("Github")
    ELSE IF p = GitlabStr THEN Ok("Gitlab")
    ELSE Err(ErrInvalidPlatform)

parse_platform(p) ==
    LET l == ToLowercase(p)
    IN  IF l = GithubStr THEN Ok("Github")
        ELSE IF l = GitlabStr THEN Ok("Gitlab")
        ELSE Err(ErrInvalidPlatform)

-----------------------------------------------------------------------------
(* Function harness: one call of one of the four functions on an input     *)
(* drawn from the sets below.                                              *)

\* the strings of the tests (lines 177-261) and of the examples
TestBase == <<"h","t","t","p","s",":","/","/","g","i","t","h","u","b",".","c","o","m","/","n","b","o","u","l","i","o","l","/","g","i","t","-","f","i","l","e","s">>

Master == <<"m","a","s","t","e","r">>

Readme == <<"r","e","a","d","m","e",".","m","d">>

OddPath == <<"s","r","c","/","a"," ","b","#","L","1",".","r","s">>

BaseUrls == {TestBase, <<>>, <<"h","t","t","p","s",":","/","/","g","i","t","l","a","b",".","c","o","m","/","a","/">>}

RefNames == {Master, <<"f","e","a","t","u","r","e","/","x">>, <<>>}

Paths == {Readme, OddPath, <<>>}

LineValues == (0..MaxLine) \cup {999, 1000, 9999, 10000, U16Max - 1, U16Max}

Lines == {None} \cup {Some(n) : n \in LineValues}

BuilderCalls ==
    {[fn |-> f, repo_url |-> b, branch_or_commit |-> r, path |-> p, line |-> l] :
        f \in {"github", "gitlab"}, b \in BaseUrls, r \in RefNames, p \in Paths, l \in Lines}

Chunks == {GitAt, DotGit, Http, Colon, Slash, <<"a">>, <<"g","i","t">>}

RECURSIVE ChunkStrings(_)
ChunkStrings(k) ==
    IF k = 0 THEN {<<>>}
    ELSE LET S == ChunkStrings(k - 1) IN S \cup {s \o c : s \in S, c \in Chunks}

SshExample == <<"g","i","t","@","h","o","s","t",":","o","w","n","e","r","/","r","e","p","o",".","g","i","t">>

NoSchemeExample == <<"h","o","s","t",":","o","w","n","e","r","/","r","e","p","o",".","g","i","t">>

TestUrls ==
    { SshExample, NoSchemeExample,
      <<"h","t","t","p","s",":","/","/","h","o","s","t","/","o","w","n","e","r","/","r","e","p","o",".","g","i","t">>,
      <<"h","t","t","p","s",":","/","/","h","o","s","t","/","o","w","n","e","r","/","r","e","p","o">>,
      <<"h","t","t","p","s",":","/","/","g","i","t","h","u","b",".","c","o","m","/","s","o","m","e","o","n","e","/","r","e","p","o",".","g","i","t">>,
      <<"h","t","t","p","s",":","/","/","g","i","t","h","u","b",".","c","o","m","/","s","o","m","e","o","n","e","/","r","e","p","o">>,
      <<"g","i","t","@","g","i","t","h","u","b",".","c","o","m",":","s","o","m","e","o","n","e","/","r","e","p","o",".","g","i","t">>,
      <<"g","i","t","h","u","b",".","c","o","m",":","s","o","m","e","o","n","e","/","r","e","p","o",".","g","i","t">>,
      <<"g","i","t","@","g","i","t","h","u","b",".","c","o","m",":","s","o","m","e","o","n","e","/","r","e","p","o">>,
      <<"x","h","t","t","p","x",".","g","i","t">> }

RawUrls == ChunkStrings(MaxChunks) \cup TestUrls

GetUrlCalls == {[fn |-> "get_url", url |-> u] : u \in {None} \cup {Some(s) : s \in RawUrls}}

ToUpperChar(c) ==
    IF \E k \in 1..Len(LowerChars) : LowerChars[k] = c
    THEN UpperChars[CHOOSE k \in 1..Len(LowerChars) : LowerChars[k] = c]
    ELSE c

\* every spelling of w in upper and lower case
CaseVariants(w) ==
    {[i \in 1..Len(w) |-> IF i \in S THEN ToUpperChar(w[i]) ELSE w[i]] : S \in SUBSET (1..Len(w))}

PlatformWords ==
    { GithubStr, GitlabStr, <<>>, <<"g","i","t">>, <<"g","i","t","l","b">>,
      <<"g","i","t","h","u","b","s">>, <<"x","g","i","t","l","a","b">>,
      <<"g","i","t","h","u","b",".","c","o","m">>, <<"g","i","t","h","u","b"," ">>,
      <<"g","i","t","h","l","a","b">>, <<"b","o","g","u","s">> }

PlatformInputs == UNION {CaseVariants(w) : w \in PlatformWords}

PlatformCalls == {[fn |-> "parse_platform", p |-> w] : w \in PlatformInputs}

Calls == BuilderCalls \cup GetUrlCalls \cup PlatformCalls

IdleMain ==
    /\ pc = "idle"
    /\ opt = None
    /\ repo = None
    /\ platform = None
    /\ branch_or_commit = <<>>
    /\ file = <<>>
    /\ url = <<>>
    /\ stdout = <<>>
    /\ err = None

InitFn ==
    /\ call \in Calls
    /\ ret = None
    /\ IdleMain

CallGithub ==
    /\ ret = None
    /\ call.fn = "github"
    /\ ret' = Some(github(call.repo_url, call.branch_or_commit, call.path, call.line))
    /\ UNCHANGED <<call, mainVars>>

CallGitlab ==
    /\ ret = None
    /\ call.fn = "gitlab"
    /\ ret' = Some(gitlab(call.repo_url, call.branch_or_commit, call.path, call.line))
    /\ UNCHANGED <<call, mainVars>>

CallGetUrl ==
    /\ ret = None
    /\ call.fn = "get_url"
    /\ ret' = Some(get_url(call.url))
    /\ UNCHANGED <<call, mainVars>>

CallParsePlatform ==
    /\ ret = None
    /\ call.fn = "parse_platform"
    /\ ret' = Some(parse_platform(call.p))
    /\ UNCHANGED <<call, mainVars>>

NextFn == CallGithub \/ CallGitlab \/ CallGetUrl \/ CallParsePlatform

SpecFn == InitFn /\ [][NextFn]_vars

-----------------------------------------------------------------------------
(* fn main: one run of the program.  opt is the command line, repo the     *)
(* repository, file system and `origin` remote the run meets; both are     *)
(* fixed at the start of the run.                                          *)

GithubRemote == <<"h","t","t","p","s",":","/","/","g","i","t","h","u","b",".","c","o","m","/","s","o","m","e","o","n","e","/","r","e","p","o",".","g","i","t">>

GithubSshRemote == <<"g","i","t","@","g","i","t","h","u","b",".","c","o","m",":","s","o","m","e","o","n","e","/","r","e","p","o",".","g","i","t">>

GitlabSshRemote == <<"g","i","t","@","g","i","t","l","a","b",".","c","o","m",":","a","/","b",".","g","i","t">>

SelfHostedRemote == <<"h","t","t","p","s",":","/","/","g","i","t",".","e","x","a","m","p","l","e",".","o","r","g","/","a","/","b",".","g","i","t">>

BothNamesRemote == <<"h","t","t","p","s",":","/","/","g","i","t","l","a","b",".","c","o","m","/","g","i","t","h","u","b","/","x",".","g","i","t">>

NoSuffixRemote == <<"h","t","t","p","s",":","/","/","g","i","t","h","u","b",".","c","o","m","/","s","o","m","e","o","n","e","/","r","e","p","o">>

RemoteUrls ==
    { GithubRemote, GithubSshRemote, GitlabSshRemote, SelfHostedRemote, BothNamesRemote,
      NoSuffixRemote, NoSchemeExample }

\* the `origin` remote: absent, present with a url that is not UTF-8
\* (Remote::url gives None), or present with a url
Origins ==
    {[present |-> FALSE, url |-> None]} \cup
    {[present |-> TRUE, url |-> u] : u \in {None} \cup {Some(s) : s \in RemoteUrls}}

CommitId == <<"0","1","2","3","4","5","6","7","8","9","a","b","c","d","e","f","0","1","2","3","4","5","6","7","8","9","a","b","c","d","e","f","0","1","2","3","4","5","6","7">>

BranchNames == {Master, <<"f","e","a","t","u","r","e","/","x">>, <<"a","/","r","e","f","s","/","h","e","a","d","s","/","b">>}

\* what repo.head() gives: an error, a branch reference (its name None when
\* it is not UTF-8), or a reference that is no branch and peels to a commit
\* or fails to
Heads ==
    {[kind |-> "error", name |-> None, commit |-> None]} \cup
    {[kind |-> "branch", name |-> n, commit |-> Some(CommitId)] :
        n \in {None} \cup {Some(RefsHeads \o b) : b \in BranchNames}} \cup
    {[kind |-> "detached", name |-> Some(<<"H","E","A","D">>), commit |-> c] :
        c \in {None, Some(CommitId)}}

\* the file argument: canonicalize fails, the canonical path is outside
\* workdir, it is inside but not UTF-8, or it is inside with relative path rel
Files ==
    {[kind |-> k, rel |-> <<>>] : k \in {"missing", "outside", "nonutf8"}} \cup
    {[kind |-> "inside", rel |-> r] : r \in {Readme, OddPath}}

Repos ==
    {[state |-> st, head |-> [kind |-> "error", name |-> None, commit |-> None],
      path |-> [kind |-> "missing", rel |-> <<>>], origin |-> [present |-> FALSE, url |-> None]] :
        st \in {"notfound", "bare", "empty", "empty_error"}} \cup
    {[state |-> "ok", head |-> h, path |-> f, origin |-> o] :
        h \in Heads, f \in Files, o \in Origins}

UrlArgs ==
    { <<"h","t","t","p","s",":","/","/","g","i","t","l","a","b",".","c","o","m","/","g","i","t","h","u","b","/","x">>,
      <<"h","t","t","p","s",":","/","/","g","i","t",".","e","x","a","m","p","l","e",".","o","r","g","/","a","/","b">>,
      GithubSshRemote }

PlatformArgs == {GithubStr, <<"G","I","T","L","A","B">>, <<"g","i","t","h","u","b",".","c","o","m">>}

Opts ==
    {[line |-> l, platform |-> p, url |-> u] :
        l \in {None, Some(5)},
        p \in {None} \cup {Some(w) : w \in PlatformArgs},
        u \in {None} \cup {Some(w) : w \in UrlArgs}}

ErrBare == "Cannot use a bare repository"

ErrEmpty == "Cannot use an empty repository"

ErrBranchOrCommit == "Cannot get branch or commit"

ErrUnknownUrl == "unknown url, try passing --url param"

\* errors of git2 and std::path passed on by `?`, and the unwrap panic
ErrDiscover == "git2: could not find repository"

ErrIsEmpty == "git2: is_empty failed"

ErrHead == "git2: head failed"

ErrPeel == "git2: peel_to_commit failed"

ErrCanonicalize == "io: canonicalize failed"

ErrStripPrefix == "path: prefix not found"

ErrFindRemote == "git2: remote 'origin' does not exist"

PanicToStr == "panic: unwrap on None"

Init ==
    /\ call = None
    /\ ret = None
    /\ pc = "from_args"
    /\ opt \in Opts
    /\ repo \in Repos
    /\ platform = None
    /\ branch_or_commit = <<>>
    /\ file = <<>>
    /\ url = <<>>
    /\ stdout = <<>>
    /\ err = None

\* return Err(e), or `?` on an Err: main ends here
Fail(e) ==
    /\ pc' = "exit"
    /\ err' = Some(e)

\* line 79: Opt::from_args, which runs parse_platform on --platform and ends
\* the process on its error
FromArgs ==
    /\ pc = "from_args"
    /\ IF opt.platform.some
       THEN LET r == parse_platform(opt.platform.val)
            IN  IF r.ok
                THEN platform' = Some(r.val) /\ pc' = "open" /\ err' = err
                ELSE Fail(r.err) /\ platform' = platform
       ELSE platform' = None /\ pc' = "open" /\ err' = err
    /\ UNCHANGED <<call, ret, opt, repo, branch_or_commit, file, url, stdout>>

\* lines 81-84: Repository::open, else Repository::discover
OpenRepo ==
    /\ pc = "open"
    /\ IF repo.state = "notfound" THEN Fail(ErrDiscover) ELSE pc' = "validate" /\ err' = err
    /\ UNCHANGED <<call, ret, opt, repo, platform, branch_or_commit, file, url, stdout>>

\* lines 86-90
CheckRepo ==
    /\ pc = "validate"
    /\ IF repo.state = "bare" THEN Fail(ErrBare)
       ELSE IF repo.state = "empty_error" THEN Fail(ErrIsEmpty)
       ELSE IF repo.state = "empty" THEN Fail(ErrEmpty)
       ELSE pc' = "head" /\ err' = err
    /\ UNCHANGED <<call, ret, opt, repo, platform, branch_or_commit, file, url, stdout>>

\* line 99: name.replace("refs/heads/", "")
BranchName(name) == Replace(name, RefsHeads, <<>>)

\* lines 92-105
ResolveHead ==
    /\ pc = "head"
    /\ IF repo.head.kind = "error"
       THEN Fail(ErrHead) /\ branch_or_commit' = branch_or_commit
       ELSE IF repo.head.kind = "branch"
            THEN IF repo.head.name.some
                 THEN /\ branch_or_commit' = BranchName(repo.head.name.val)
                      /\ pc' = "file" /\ err' = err
                 ELSE Fail(ErrBranchOrCommit) /\ branch_or_commit' = branch_or_commit
            ELSE IF repo.head.commit.some
                 THEN /\ branch_or_commit' = repo.head.commit.val
                      /\ pc' = "file" /\ err' = err
                 ELSE Fail(ErrPeel) /\ branch_or_commit' = branch_or_commit
    /\ UNCHANGED <<call, ret, opt, repo, platform, file, url, stdout>>

\* lines 107-108
ResolveFile ==
    /\ pc = "file"
    /\ IF repo.path.kind = "missing" THEN Fail(ErrCanonicalize) /\ file' = file
       ELSE IF repo.path.kind = "outside" THEN Fail(ErrStripPrefix) /\ file' = file
       ELSE IF repo.path.kind = "nonutf8" THEN Fail(PanicToStr) /\ file' = file
       ELSE file' = repo.path.rel /\ pc' = "remote" /\ err' = err
    /\ UNCHANGED <<call, ret, opt, repo, platform, branch_or_commit, url, stdout>>

\* line 110: repo.find_remote("origin")?, whatever the options are
FindRemote ==
    /\ pc = "remote"
    /\ IF repo.origin.present THEN pc' = "url" /\ err' = err ELSE Fail(ErrFindRemote)
    /\ UNCHANGED <<call, ret, opt, repo, platform, branch_or_commit, file, url, stdout>>

\* lines 112-117 with get_url applied to --url as well
BaseUrlNormalizeArg(o, remote_url) ==
    IF o.url.some THEN get_url(o.url) ELSE get_url(remote_url)

\* lines 112-117: --url as given, else get_url of the remote's url
BaseUrl(o, remote_url) ==
    IF o.url.some THEN Ok(o.url.val) ELSE get_url(remote_url)

ResolveUrl ==
    /\ pc = "url"
    /\ LET r == BaseUrl(opt, repo.origin.url)
       IN  IF r.ok
           THEN url' = r.val /\ pc' = "dispatch" /\ err' = err
           ELSE Fail(r.err) /\ url' = url
    /\ UNCHANGED <<call, ret, opt, repo, platform, branch_or_commit, file, stdout>>

\* lines 119-134 with the two substring tests in the other order
FileUrlGitlabFirst(pf, u, boc, f, line) ==
    IF pf.some
    THEN IF pf.val = "Github" THEN github(u, boc, f, line) ELSE gitlab(u, boc, f, line)
    ELSE IF Contains(u, GitlabStr) THEN gitlab(u, boc, f, line)
    ELSE IF Contains(u, GithubStr) THEN github(u, boc, f, line)
    ELSE Err(ErrUnknownUrl)

\* lines 119-134: the url to print, or the error
FileUrl(pf, u, boc, f, line) ==
    IF pf.some
    THEN IF pf.val = "Github" THEN github(u, boc, f, line) ELSE gitlab(u, boc, f, line)
    ELSE IF Contains(u, GithubStr) THEN github(u, boc, f, line)
    ELSE IF Contains(u, GitlabStr) THEN gitlab(u, boc, f, line)
    ELSE Err(ErrUnknownUrl)

\* lines 119-136 with the url printed before the unknown-platform error
DispatchPrintFirst ==
    /\ pc = "dispatch"
    /\ LET r == FileUrl(platform, url, branch_or_commit, file, opt.line)
       IN  IF r.ok
           THEN stdout' = Append(stdout, r.val) /\ pc' = "exit" /\ err' = err
           ELSE Fail(r.err) /\ stdout' = Append(stdout, url)
    /\ UNCHANGED <<call, ret, opt, repo, platform, branch_or_commit, file, url>>

\* lines 119-136: println! of the file url and Ok(()), or the error
Dispatch ==
    /\ pc = "dispatch"
    /\ LET r == FileUrl(platform, url, branch_or_commit, file, opt.line)
       IN  IF r.ok
           THEN stdout' = Append(stdout, r.val) /\ pc' = "exit" /\ err' = err
           ELSE Fail(r.err) /\ stdout' = stdout
    /\ UNCHANGED <<call, ret, opt, repo, platform, branch_or_commit, file, url>>

Next ==
    \/ FromArgs
    \/ OpenRepo
    \/ CheckRepo
    \/ ResolveHead
    \/ ResolveFile
    \/ FindRemote
    \/ ResolveUrl
    \/ Dispatch

Spec == Init /\ [][Next]_vars

-----------------------------------------------------------------------------
(* Properties of the four functions, checked under SpecFn *)

Returned(f) == ret.some /\ call.fn = f

DigitValue(c) == CHOOSE k \in 0..9 : Digits[k + 1] = c

\* d is the decimal numeral of a natural number: digits only, no leading zero
IsDecimal(d) ==
    /\ Len(d) >= 1
    /\ \A i \in 1..Len(d) : \E k \in 1..10 : Digits[k] = d[i]
    /\ Len(d) > 1 => d[1] # "0"

RECURSIVE ParseDec(_)
ParseDec(d) ==
    IF Len(d) = 0 THEN 0
    ELSE 10 * ParseDec(SubSeq(d, 1, Len(d) - 1)) + DigitValue(d[Len(d)])

\* C1: github(B,R,P,line) is Ok of B, "/blob/", R, "/", P in that order and
\* unchanged, and gitlab(B,R,P,line) the same with "/-/blob/"; nothing follows
\* when line is None, and with Some(n) exactly "#L" and the decimal numeral of
\* n follow.  Neither returns an error.
C1_BuildersFormat ==
    (ret.some /\ call.fn \in {"github", "gitlab"}) =>
        LET seg == IF call.fn = "github" THEN BlobSeg ELSE DashBlobSeg
            r   == ret.val
            n1  == Len(call.repo_url)
            n2  == n1 + Len(seg)
            n3  == n2 + Len(call.branch_or_commit)
            n4  == n3 + 1
            n5  == n4 + Len(call.path)
        IN  /\ r.ok
            /\ Len(r.val) >= n5
            /\ SubSeq(r.val, 1, n1) = call.repo_url
            /\ SubSeq(r.val, n1 + 1, n2) = seg
            /\ SubSeq(r.val, n2 + 1, n3) = call.branch_or_commit
            /\ SubSeq(r.val, n3 + 1, n4) = Slash
            /\ SubSeq(r.val, n4 + 1, n5) = call.path
            /\ IF call.line.some
               THEN /\ Len(r.val) >= n5 + 3
                    /\ SubSeq(r.val, n5 + 1, n5 + 2) = HashL
                    /\ IsDecimal(SubSeq(r.val, n5 + 3, Len(r.val)))
                    /\ ParseDec(SubSeq(r.val, n5 + 3, Len(r.val))) = call.line.val
               ELSE Len(r.val) = n5

C1_Witness ==
    /\ Returned("gitlab")
    /\ call.repo_url = TestBase /\ call.branch_or_commit = Master /\ call.path = OddPath
    /\ call.line = Some(U16Max)
    /\ ret.val.ok
    /\ SubSeq(ret.val.val, Len(ret.val.val) - 6, Len(ret.val.val)) = <<"#","L","6","5","5","3","5">>

\* C2: for s starting with "git@", get_url(Some(s)) succeeds iff s ends with
\* ".git"; the result is then "https://" followed by s without its first four
\* and last four characters, each ":" turned into "/" and every other
\* character kept; otherwise the error is "Invalid remote form".
C2_SshForm ==
    (Returned("get_url") /\ call.url.some /\ StartsWith(call.url.val, GitAt)) =>
        LET s == call.url.val
            r == ret.val
        IN  /\ r.ok <=> EndsWith(s, DotGit)
            /\ r.ok => /\ Len(r.val) = Len(s)
                       /\ SubSeq(r.val, 1, 8) = Https
                       /\ \A i \in 1..(Len(s) - 8) :
                            r.val[8 + i] = IF s[4 + i] = ":" THEN "/" ELSE s[4 + i]
            /\ ~r.ok => r.err = ErrInvalidRemoteForm

C2_Witness ==
    /\ Returned("get_url")
    /\ call.url = Some(SshExample)
    /\ ret.val.ok
    /\ ret.val.val = <<"h","t","t","p","s",":","/","/","h","o","s","t","/","o","w","n","e","r","/","r","e","p","o">>

\* C3: for s not starting with "git@": without a ".git" suffix the error is
\* "cannot get repository url"; with the suffix and "http" in the rest, the
\* result is Ok of s less that one suffix; with the suffix and no "http" in
\* the rest, the error is "Invalid remote form".
C3_HttpForm ==
    (Returned("get_url") /\ call.url.some /\ ~StartsWith(call.url.val, GitAt)) =>
        LET s == call.url.val
            r == ret.val
        IN  IF ~EndsWith(s, DotGit)
            THEN ~r.ok /\ r.err = ErrCannotGetUrl
            ELSE IF Contains(SubSeq(s, 1, Len(s) - 4), Http)
                 THEN r.ok /\ r.val \o DotGit = s
                 ELSE ~r.ok /\ r.err = ErrInvalidRemoteForm

C3_Witness ==
    /\ Returned("get_url")
    /\ call.url = Some(Http \o DotGit \o DotGit)
    /\ ret.val.ok
    /\ ret.val.val = Http \o DotGit

\* the error outcomes get_url returns for a url that is present
PresentErrors == {get_url(Some(s)).err : s \in {t \in RawUrls : ~get_url(Some(t)).ok}}

\* C4 as claimed: get_url(None) fails with an error outcome that differs from
\* every error outcome of a present but unparseable url.
C4_Original ==
    (Returned("get_url") /\ ~call.url.some) =>
        ~ret.val.ok /\ ret.val.err \notin PresentErrors

\* C4 as amended: get_url(None) fails with "cannot get repository url", the
\* very outcome of a present url that neither starts with "git@" nor ends
\* with ".git", and not the "Invalid remote form" outcome.
C4_Amended ==
    (Returned("get_url") /\ ~call.url.some) =>
        /\ ~ret.val.ok
        /\ ret.val.err = ErrCannotGetUrl
        /\ ret.val.err # ErrInvalidRemoteForm
        /\ \A s \in RawUrls :
              (~StartsWith(s, GitAt) /\ ~EndsWith(s, DotGit)) => get_url(Some(s)) = ret.val

C4_Witness ==
    /\ Returned("get_url")
    /\ call.url = None
    /\ ~ret.val.ok
    /\ ret.val.err \in PresentErrors

EqIgnoreCase(p, w) ==
    /\ Len(p) = Len(w)
    /\ \A i \in 1..Len(w) : p[i] = w[i] \/ p[i] = ToUpperChar(w[i])

\* C8: parse_platform(p) is Ok(Github) exactly when p is "github" in some
\* mix of upper and lower case, Ok(Gitlab) exactly when p is "gitlab" in some
\* mix, and the invalid-platform error for every other p.
C8_ParsePlatform ==
    Returned("parse_platform") =>
        LET p == call.p
            r == ret.val
        IN  /\ (r.ok /\ r.val = "Github") <=> EqIgnoreCase(p, GithubStr)
            /\ (r.ok /\ r.val = "Gitlab") <=> EqIgnoreCase(p, GitlabStr)
            /\ r.ok => r.val \in Platform
            /\ ~r.ok => r.err = ErrInvalidPlatform

C8_Witness ==
    /\ Returned("parse_platform")
    /\ call.p = <<"G","i","t","H","u","b">>
    /\ ret.val.ok
    /\ ret.val.val = "Github"

-----------------------------------------------------------------------------
(* Properties of a run of main, checked under Spec *)

Succeeded == pc = "exit" /\ ~err.some

\* C5: with --platform github (gitlab) in any case the GitHub (GitLab)
\* builder's url is printed whatever the base url contains, and the run never
\* ends with the unknown-url error; with no --platform the GitHub builder's
\* url is printed if the base url contains "github", else the GitLab
\* builder's if it contains "gitlab", else the run ends with the unknown-url
\* error and prints nothing.
C5_PlatformDispatch ==
    pc = "exit" =>
        LET gh == github(url, branch_or_commit, file, opt.line).val
            gl == gitlab(url, branch_or_commit, file, opt.line).val
        IN  /\ (Succeeded /\ opt.platform.some /\ EqIgnoreCase(opt.platform.val, GithubStr))
                  => stdout = <<gh>>
            /\ (Succeeded /\ opt.platform.some /\ EqIgnoreCase(opt.platform.val, GitlabStr))
                  => stdout = <<gl>>
            /\ opt.platform.some => err # Some(ErrUnknownUrl)
            /\ (Succeeded /\ ~opt.platform.some)
                  => IF Contains(url, GithubStr) THEN stdout = <<gh>>
                     ELSE Contains(url, GitlabStr) /\ stdout = <<gl>>
            /\ err = Some(ErrUnknownUrl)
                  => /\ ~Contains(url, GithubStr)
                     /\ ~Contains(url, GitlabStr)
                     /\ stdout = <<>>

C5_Witness ==
    /\ Succeeded
    /\ ~opt.platform.some
    /\ Contains(url, GithubStr) /\ Contains(url, GitlabStr)
    /\ stdout = <<url \o BlobSeg \o branch_or_commit \o Slash \o file>>

\* C6 as claimed: a run given --url never ends with the error of a missing
\* `origin` remote, nor with an error of get_url on the remote's url.
C6_UrlBypassesRemote ==
    (pc = "exit" /\ opt.url.some) =>
        err \notin {Some(ErrFindRemote), Some(ErrCannotGetUrl), Some(ErrInvalidRemoteForm)}

RawUrl == IF opt.url.some THEN opt.url ELSE repo.origin.url

\* C9 as claimed: at platform dispatch the base url is the Ok result of
\* get_url on the raw remote url, from `origin` or from --url alike.
C9_Original ==
    pc = "dispatch" =>
        /\ get_url(RawUrl) = Ok(url)
        /\ Contains(url, Http)

\* C9 as amended: at platform dispatch, without --url the base url is the Ok
\* result of get_url on the url of `origin` (it contains "http", the ".git"
\* suffix is gone, and an ssh form has become "https://" with no ":" left
\* after it); with --url the base url is the given string itself.
C9_Amended ==
    pc = "dispatch" =>
        IF opt.url.some
        THEN url = opt.url.val
        ELSE /\ repo.origin.url.some
             /\ get_url(repo.origin.url) = Ok(url)
             /\ Contains(url, Http)
             /\ LET raw == repo.origin.url.val
                IN  IF StartsWith(raw, GitAt)
                    THEN /\ StartsWith(url, Https)
                         /\ Len(url) = Len(raw)
                         /\ ~Contains(SubSeq(url, 9, Len(url)), Colon)
                    ELSE url \o DotGit = raw

C9_Witness ==
    /\ pc = "dispatch"
    /\ opt.url = Some(GithubSshRemote)
    /\ url = GithubSshRemote
    /\ ~Contains(url, Http)

\* C10 as claimed: once HEAD is resolved, the ref is N when HEAD is the
\* branch reference "refs/heads/" + N, and the commit id HEAD peels to when
\* HEAD is no branch reference.
C10_RefResolution ==
    pc = "file" =>
        IF repo.head.kind = "branch"
        THEN RefsHeads \o branch_or_commit = repo.head.name.val
        ELSE branch_or_commit = repo.head.commit.val

====
